---- MODULE Spec2Model ----
(***************************************************************************)
(* Model of the spreadsheet validator's fix lifecycle: the business-rule   *)
(* validator (app/tools/validation.py), the fix/skip state mutations       *)
(* (app/fix_utils.py), row fingerprinting (app/utils.py) and packaging     *)
(* (app/tools/processing.py), operating on one session state dict.         *)
(***************************************************************************)
EXTENDS Integers, Sequences, FiniteSets, TLC

(***************************************************************************)
(* Cell values.  A Python cell value is None, a float NaN, a str, an int   *)
(* or a float.  Every value has the same shape so that values of different *)
(* Python types can be compared; a float n + f * 10^-7 (f >= 0) keeps its  *)
(* integer part n and seven decimals f.                                    *)
(***************************************************************************)
None == [t |-> "none", s |-> "", n |-> 0, f |-> 0]

NaN == [t |-> "nan", s |-> "", n |-> 0, f |-> 0]

S(x) == [t |-> "str", s |-> x, n |-> 0, f |-> 0]

I(k) == [t |-> "int", s |-> "", n |-> k, f |-> 0]

F(k, fr) == [t |-> "float", s |-> "", n |-> k, f |-> fr]

\* dict.get(key, default)
Get(row, k, default) == IF k \in DOMAIN row THEN row[k] ELSE default

Min(a, b) == IF a <= b THEN a ELSE b

RECURSIVE Zeros(_)
Zeros(k) == IF k <= 0 THEN "" ELSE "0" \o Zeros(k - 1)

RECURSIVE NumDigits(_)
NumDigits(m) == IF m < 10 THEN 1 ELSE 1 + NumDigits(m \div 10)

\* the decimals of a float's repr: trailing zeros dropped, at least one digit
RECURSIVE FracText(_, _)
FracText(fr, width) ==
    IF width > 1 /\ fr % 10 = 0
    THEN FracText(fr \div 10, width - 1)
    ELSE Zeros(width - NumDigits(fr)) \o ToString(fr)

\* Python str(v)
Str(v) ==
    CASE v.t = "str" -> v.s
      [] v.t = "none" -> "None"
      [] v.t = "nan" -> "nan"
      [] v.t = "int" -> ToString(v.n)
      [] v.t = "float" -> ToString(v.n) \o "." \o FracText(v.f, 7)

\* The numeric strings of the model's value domain, as float() parses them;
\* float() raises ValueError on every other string of the domain.
NumericStrings ==
    ("1500" :> F(1500, 0)) @@ ("-1" :> F(-1, 0)) @@ ("1500.0" :> F(1500, 0))
    @@ ("0" :> F(0, 0)) @@ ("200000" :> F(200000, 0)) @@ ("1.5" :> F(1, 5000000))

\* Python float(v): [ok |-> FALSE] stands for TypeError / ValueError
ToFloat(v) ==
    CASE v.t = "float" -> [ok |-> TRUE, nan |-> FALSE, n |-> v.n, f |-> v.f]
      [] v.t = "int" -> [ok |-> TRUE, nan |-> FALSE, n |-> v.n, f |-> 0]
      [] v.t = "nan" -> [ok |-> TRUE, nan |-> TRUE, n |-> 0, f |-> 0]
      [] v.t = "none" -> [ok |-> FALSE, nan |-> FALSE, n |-> 0, f |-> 0]
      [] v.t = "str" ->
            IF v.s \in DOMAIN NumericStrings
            THEN [ok |-> TRUE, nan |-> FALSE,
                  n |-> NumericStrings[v.s].n, f |-> NumericStrings[v.s].f]
            ELSE [ok |-> FALSE, nan |-> FALSE, n |-> 0, f |-> 0]

\* The integer strings of the domain, as int() parses them
IntegerStrings == ("0" :> 0) @@ ("1" :> 1) @@ ("-1" :> -1)

\* int() that takes any text for 0 instead of raising
ToIntLenient(v) ==
    CASE v.t = "int" -> [ok |-> TRUE, n |-> v.n]
      [] v.t = "float" ->
            [ok |-> TRUE, n |-> IF v.n < 0 /\ v.f > 0 THEN v.n + 1 ELSE v.n]
      [] v.t = "str" ->
            [ok |-> TRUE,
             n |-> IF v.s \in DOMAIN IntegerStrings THEN IntegerStrings[v.s] ELSE 0]
      [] OTHER -> [ok |-> FALSE, n |-> 0]

\* Python int(v): [ok |-> FALSE] stands for TypeError / ValueError
ToInt(v) ==
    CASE v.t = "int" -> [ok |-> TRUE, n |-> v.n]
      [] v.t = "float" ->
            [ok |-> TRUE, n |-> IF v.n < 0 /\ v.f > 0 THEN v.n + 1 ELSE v.n]
      [] v.t = "str" ->
            IF v.s \in DOMAIN IntegerStrings
            THEN [ok |-> TRUE, n |-> IntegerStrings[v.s]]
            ELSE [ok |-> FALSE, n |-> 0]
      [] OTHER -> [ok |-> FALSE, n |-> 0]

\* a value left as it is: no null token, no rounding, no str()
normalize_verbatim(v) == [k |-> v.t, s |-> v.s, n |-> v.n, f |-> v.f]

(***************************************************************************)
(* Fingerprints (app/utils.py).  The SHA-256 digest of the canonical JSON  *)
(* is modelled by the canonical form itself (the hash is taken to be       *)
(* injective); a canonical form is the sorted key -> token mapping.        *)
(***************************************************************************)
normalize(v) ==
    CASE v.t = "none" -> [k |-> "str", s |-> "null", n |-> 0, f |-> 0]
      [] v.t = "nan" -> [k |-> "str", s |-> "null", n |-> 0, f |-> 0]
      [] v.t = "float" ->
            LET r == (v.f + 5) \div 10
            IN  IF r = 1000000
                THEN [k |-> "num", s |-> "", n |-> v.n + 1, f |-> 0]
                ELSE [k |-> "num", s |-> "", n |-> v.n, f |-> r]
      [] OTHER -> [k |-> "str", s |-> Str(v), n |-> 0, f |-> 0]

canonicalize_row(row) == [k \in DOMAIN row |-> normalize(row[k])]

compute_row_fingerprint(row) == canonicalize_row(row)

compute_all_fingerprints(recs) ==
    [i \in 1..Len(recs) |-> compute_row_fingerprint(recs[i])]

(***************************************************************************)
(* Business rules (app/tools/validation.py)                                *)
(***************************************************************************)
FIX_BATCH_SIZE == 5

VALID_DEPARTMENTS == {"FIN", "HR", "ENG", "OPS"}

VALID_CURRENCIES == {"USD", "EUR", "GBP", "INR"}

\* The strings of the model's value domain that match ^[A-Z0-9]{4,12}$
EMPLOYEE_ID_PATTERN ==
    {"EMP001", "EMP002", "EMP003", "EMP004", "EMP005", "EMP006", "EMP007",
     "1500", "200000"}

\* The strings of the domain that strptime(.., "%Y-%m-%d") parses, as
\* ordinals that keep the order of the dates
DateStrings ==
    ("2024-01-15" :> 20240115) @@ ("2024-01-16" :> 20240116)
    @@ ("2024-01-10" :> 20240110) @@ ("2099-01-01" :> 20990101)

\* date.today()
Today == 20261103

\* the reference date for the future-date check
RefDate(as_of_date) ==
    IF as_of_date.t = "str" /\ as_of_date.s # ""
    THEN IF as_of_date.s \in DOMAIN DateStrings
         THEN DateStrings[as_of_date.s]
         ELSE Today
    ELSE Today

RowPair(row) ==
    <<Str(Get(row, "employee_id", S(""))), Str(Get(row, "spend_date", S("")))>>

Err(field, error) == [field |-> field, error |-> error]

Rule1(row) ==
    LET emp_id == Str(Get(row, "employee_id", S("")))
    IN  IF emp_id \notin EMPLOYEE_ID_PATTERN
        THEN <<Err("employee_id", "Invalid employee_id format: '" \o emp_id \o "'")>>
        ELSE <<>>

Rule2(row) ==
    LET dept == Str(Get(row, "dept", S("")))
    IN  IF dept \notin VALID_DEPARTMENTS
        THEN <<Err("dept", "Invalid department '" \o dept \o "'")>>
        ELSE <<>>

Rule3(row) ==
    LET a == ToFloat(Get(row, "amount", I(0)))
    IN  IF ~a.ok
        THEN <<Err("amount", "Invalid amount value: '"
                             \o Str(Get(row, "amount", None)) \o "'")>>
        ELSE IF ~a.nan /\ (\/ a.n < 0
                           \/ a.n = 0 /\ a.f = 0
                           \/ a.n > 100000
                           \/ a.n = 100000 /\ a.f > 0)
        THEN <<Err("amount", "Amount out of range")>>
        ELSE <<>>

Rule4(row) ==
    LET currency == Str(Get(row, "currency", S("")))
    IN  IF currency \notin VALID_CURRENCIES
        THEN <<Err("currency", "Invalid currency '" \o currency \o "'")>>
        ELSE <<>>

Rule5(row, ref_date) ==
    LET spend_date_str == Str(Get(row, "spend_date", S("")))
    IN  IF spend_date_str \notin DOMAIN DateStrings
        THEN <<Err("spend_date", "Invalid date format '" \o spend_date_str \o "'")>>
        ELSE IF DateStrings[spend_date_str] > ref_date
        THEN <<Err("spend_date", "Future date '" \o spend_date_str \o "' not allowed")>>
        ELSE <<>>

\* str.strip() leaves "" exactly for the all-whitespace strings of the domain
Rule6(row) ==
    LET vendor == Str(Get(row, "vendor", S("")))
    IN  IF vendor \in {"", " "}
        THEN <<Err("vendor", "Vendor must not be empty")>>
        ELSE <<>>

Rule7(row) ==
    LET currency == Str(Get(row, "currency", S("")))
        fx_rate == Get(row, "fx_rate", None)
        fx_val == ToFloat(fx_rate)
    IN  IF currency # "USD" /\ currency \in VALID_CURRENCIES
        THEN IF fx_rate.t \in {"none", "nan"}
             THEN <<Err("fx_rate", "fx_rate is required for non-USD currency")>>
             ELSE IF ~fx_val.ok
             THEN <<Err("fx_rate", "Invalid fx_rate value")>>
             ELSE IF \/ fx_val.n < 0
                     \/ fx_val.n = 0 /\ fx_val.f < 1000000
                     \/ fx_val.n > 500
                     \/ fx_val.n = 500 /\ fx_val.f > 0
             THEN <<Err("fx_rate", "fx_rate out of range [0.1, 500]")>>
             ELSE <<>>
        ELSE <<>>

Rule8(row, is_duplicate, first_occurrence_idx) ==
    IF is_duplicate
    THEN <<Err("employee_id", "Duplicate (employee_id, spend_date) pair, also at row "
                              \o ToString(first_occurrence_idx))>>
    ELSE <<>>

\* the row_errors list the loop body builds for one evaluated row
RowErrors(row, ref_date, is_duplicate, first_occurrence_idx) ==
    Rule1(row) \o Rule2(row) \o Rule3(row) \o Rule4(row) \o Rule5(row, ref_date)
    \o Rule6(row) \o Rule7(row) \o Rule8(row, is_duplicate, first_occurrence_idx)

\* the pending entries appended for one row with errors
RowEntries(idx, row, row_errors) ==
    [j \in 1..Len(row_errors) |->
        [row_index |-> idx,
         field |-> row_errors[j].field,
         current_value |-> Str(Get(row, row_errors[j].field, S(""))),
         error_message |-> row_errors[j].error]]

\* {f["row_index"] for f in fixes}
RowsOf(fixes) == {fixes[j].row_index : j \in 1..Len(fixes)}

\* an empty dict
EmptyDict == [x \in {} |-> TRUE]

\* the loop body for a row that is evaluated against the rules
EvaluateRow(acc, idx, row, fp, pair, row_errors) ==
    [acc EXCEPT !.seen_pairs = (pair :> idx) @@ @,
                !.new_valid = (fp :> (row_errors = <<>>)) @@ @,
                !.error_row_count = IF row_errors # <<>> THEN @ + 1 ELSE @,
                !.pending = @ \o RowEntries(idx, row, row_errors)]

\* a loop body for a row that is not evaluated which leaves the row out of
\* seen_pairs
PassRowUnseen(acc, idx, fp, pair, valid) ==
    [acc EXCEPT !.skipped_count = @ + 1,
                !.new_valid = (fp :> valid) @@ @,
                !.passed = @ \cup {idx}]

\* the loop body for a row that is not evaluated: user-skipped (valid =
\* FALSE) or unchanged and previously valid (valid = TRUE)
PassRow(acc, idx, fp, pair, valid) ==
    [acc EXCEPT !.seen_pairs = (pair :> idx) @@ @,
                !.skipped_count = @ + 1,
                !.new_valid = (fp :> valid) @@ @,
                !.passed = @ \cup {idx}]

\* one iteration of the for-loop of validate_data
ValidateRow(acc, idx, row, fp, pair, prev_valid, skipped_indices, ref_date) ==
    IF idx \in skipped_indices
    THEN PassRow(acc, idx, fp, pair, FALSE)
    ELSE IF /\ fp \in DOMAIN prev_valid
            /\ prev_valid[fp] = TRUE
            /\ pair \notin DOMAIN acc.seen_pairs
    THEN PassRow(acc, idx, fp, pair, TRUE)
    ELSE EvaluateRow(acc, idx, row, fp, pair,
                     RowErrors(row, ref_date, pair \in DOMAIN acc.seen_pairs,
                               IF pair \in DOMAIN acc.seen_pairs
                               THEN acc.seen_pairs[pair] ELSE -1))

\* the for-loop of validate_data over enumerate(records)
RECURSIVE ValidateLoop(_, _, _, _, _, _, _)
ValidateLoop(idx, acc, recs, fps, prev_valid, skipped_indices, ref_date) ==
    IF idx >= Len(recs) THEN acc
    ELSE ValidateLoop(idx + 1,
                      ValidateRow(acc, idx, recs[idx + 1], fps[idx + 1],
                                  RowPair(recs[idx + 1]), prev_valid,
                                  skipped_indices, ref_date),
                      recs, fps, prev_valid, skipped_indices, ref_date)

\* the locals of validate_data before its loop; passed collects the
\* indices at which the loop takes `continue`
ValidateInit ==
    [pending |-> <<>>, seen_pairs |-> EmptyDict, new_valid |-> EmptyDict,
     skipped_count |-> 0, error_row_count |-> 0, passed |-> {}]

\* a batch of the FIX_BATCH_SIZE largest error row indices
BatchRowIndicesLargest(pending) ==
    {r \in RowsOf(pending) :
        Cardinality({q \in RowsOf(pending) : q > r}) < FIX_BATCH_SIZE}

\* a batch of every error row
BatchRowIndicesAll(pending) == RowsOf(pending)

\* sorted(errors_by_row.keys())[:FIX_BATCH_SIZE]
BatchRowIndices(pending) ==
    {r \in RowsOf(pending) :
        Cardinality({q \in RowsOf(pending) : q < r}) < FIX_BATCH_SIZE}

\* the fingerprints validate_data works with: recomputed when not parallel
ValidateFingerprints(st) ==
    IF Len(st.row_fingerprints) # Len(st.dataframe_records)
    THEN compute_all_fingerprints(st.dataframe_records)
    ELSE st.row_fingerprints

\* validate_data after its loop: batching, state update and returned dict
ValidateFinish(st, fingerprints, acc, batch_rows, skipped_indices, t) ==
    IF acc.pending # <<>>
    THEN [state |->
            [st EXCEPT !.row_fingerprints = fingerprints,
                       !.validated_row_fingerprints = acc.new_valid,
                       !.remaining_fixes =
                           SelectSeq(acc.pending,
                                     LAMBDA fx : fx.row_index \notin batch_rows),
                       !.pending_fixes =
                           SelectSeq(acc.pending,
                                     LAMBDA fx : fx.row_index \in batch_rows),
                       !.total_error_rows =
                           acc.error_row_count + Cardinality(skipped_indices),
                       !.status = "WAITING_FOR_USER",
                       !.waiting_since = <<t>>,
                       !.validation_complete = FALSE],
          result |-> [status |-> "waiting_for_fixes",
                      action |-> "STOP",
                      total_rows |-> Len(st.dataframe_records),
                      valid_count |-> Len(st.dataframe_records) - acc.error_row_count,
                      error_count |-> acc.error_row_count,
                      pending_fixes_count |->
                          Len(SelectSeq(acc.pending,
                                        LAMBDA fx : fx.row_index \in batch_rows)),
                      total_error_rows |-> acc.error_row_count,
                      batch_size |-> Cardinality(batch_rows),
                      skipped_unchanged |-> acc.skipped_count]]
    ELSE [state |->
            [st EXCEPT !.row_fingerprints = fingerprints,
                       !.validated_row_fingerprints = acc.new_valid,
                       !.pending_fixes = <<>>,
                       !.remaining_fixes = <<>>,
                       !.status = "VALIDATING",
                       !.validation_complete = TRUE,
                       !.waiting_since = <<>>],
          result |-> [status |-> "success",
                      action |-> "Proceed",
                      total_rows |-> Len(st.dataframe_records),
                      valid_count |-> Len(st.dataframe_records) - acc.error_row_count,
                      error_count |-> acc.error_row_count,
                      skipped_unchanged |-> acc.skipped_count]]

ValidateBatch(st, fingerprints, acc, skipped_indices, t) ==
    ValidateFinish(st, fingerprints, acc, BatchRowIndices(acc.pending),
                   skipped_indices, t)

ValidateWith(st, fingerprints, skipped_indices, ref_date, t) ==
    ValidateBatch(st, fingerprints,
                  ValidateLoop(0, ValidateInit, st.dataframe_records, fingerprints,
                               st.validated_row_fingerprints, skipped_indices, ref_date),
                  skipped_indices, t)

\* validate_data(tool_context, as_of_date) at time t: the state it leaves and
\* the dict it returns
validate_data(st, as_of_date, t) ==
    IF st.dataframe_records = <<>>
    THEN [state |-> st,
          result |-> [status |-> "error", message |-> "No data loaded to validate."]]
    ELSE ValidateWith(st, ValidateFingerprints(st), RowsOf(st.skipped_fixes),
                      RefDate(as_of_date), t)

(***************************************************************************)
(* Fix lifecycle (app/fix_utils.py).  Each operation maps the session      *)
(* state st, its arguments and the time t of the call to the state it      *)
(* leaves and the dict it returns.  waiting_since is <<>> for None.        *)
(***************************************************************************)
_rebatch_fixes(st, t) ==
    LET pending == st.pending_fixes
        remaining == st.remaining_fixes
    IN  IF pending = <<>> /\ remaining # <<>>
        THEN [st EXCEPT !.pending_fixes =
                            SubSeq(remaining, 1, Min(FIX_BATCH_SIZE, Len(remaining))),
                        !.remaining_fixes =
                            SubSeq(remaining, FIX_BATCH_SIZE + 1, Len(remaining)),
                        !.status = "WAITING_FOR_USER",
                        !.waiting_since = <<t>>]
        ELSE st

\* a deletion that leaves the key in place
DictKeep(d, key) == d

\* del d[key]
DictDel(d, key) == [x \in DOMAIN d \ {key} |-> d[x]]

\* the status update every fix/skip operation ends with
StatusAfterFix(st, t) ==
    IF st.pending_fixes = <<>>
    THEN [st EXCEPT !.status = "RUNNING"]
    ELSE [st EXCEPT !.status = "FIXING", !.waiting_since = <<t>>]

\* the pending entries apply_single_fix keeps
SinglePendingAfterFix(old_pending, row_index, field) ==
    SelectSeq(old_pending,
              LAMBDA fx : ~(fx.row_index = row_index /\ fx.field = field))

\* records / fingerprints / validity cache after writing the fields of
\* fixes into row row_index
WriteFields(st, row_index, fixes) ==
    LET records == st.dataframe_records
        fingerprints == st.row_fingerprints
        valid_fp == st.validated_row_fingerprints
        has_fp == row_index < Len(fingerprints)
        new_row == fixes @@ records[row_index + 1]
        new_fp == compute_row_fingerprint(new_row)
    IN  [st EXCEPT !.dataframe_records = [records EXCEPT ![row_index + 1] = new_row],
                   !.row_fingerprints =
                       IF has_fp THEN [fingerprints EXCEPT ![row_index + 1] = new_fp]
                       ELSE fingerprints,
                   !.validated_row_fingerprints =
                       IF has_fp /\ fingerprints[row_index + 1] \in DOMAIN valid_fp
                       THEN DictDel(valid_fp, fingerprints[row_index + 1])
                       ELSE valid_fp]

apply_single_fix(st, row_index_arg, field, new_value, t) ==
    LET conv == ToInt(row_index_arg)
        row_index == conv.n
        records == st.dataframe_records
        new_pending == SinglePendingAfterFix(st.pending_fixes, row_index, field)
        st1 == [WriteFields(st, row_index, field :> new_value)
                   EXCEPT !.pending_fixes = new_pending]
        st2 == StatusAfterFix(_rebatch_fixes(st1, t), t)
    IN  IF ~conv.ok
        THEN [state |-> st,
              result |-> [status |-> "error",
                          message |-> "Invalid row_index: " \o Str(row_index_arg)
                                          \o ". Must be an integer."]]
        ELSE IF row_index < 0 \/ row_index >= Len(records)
        THEN [state |-> st,
              result |-> [status |-> "error",
                          message |-> "Row index " \o ToString(row_index) \o " out of range."]]
        ELSE [state |-> st2,
              result |-> [status |-> "fixed",
                          row_index |-> row_index,
                          field |-> field,
                          old_value |-> Get(records[row_index + 1], field, None),
                          new_value |-> new_value,
                          remaining_fixes |->
                              Len(new_pending) + Len(st2.remaining_fixes)]]

\* the pending entries apply_batch_fixes keeps
BatchPendingAfterFix(old_pending, row_index, fix_fields) ==
    SelectSeq(old_pending,
              LAMBDA fx : ~(fx.row_index = row_index /\ fx.field \in fix_fields))

\* fixes is [isdict, items]: items is the field -> value mapping when the
\* payload is a dict
apply_batch_fixes(st, row_index_arg, fixes, t) ==
    LET conv == ToInt(row_index_arg)
        row_index == conv.n
        records == st.dataframe_records
        new_pending == BatchPendingAfterFix(st.pending_fixes, row_index,
                                            DOMAIN fixes.items)
        st1 == [WriteFields(st, row_index, fixes.items)
                   EXCEPT !.pending_fixes = new_pending]
        st2 == StatusAfterFix(_rebatch_fixes(st1, t), t)
    IN  IF ~conv.ok
        THEN [state |-> st,
              result |-> [status |-> "error",
                          message |-> "Invalid row_index: " \o Str(row_index_arg)
                                          \o ". Must be an integer."]]
        ELSE IF ~fixes.isdict \/ DOMAIN fixes.items = {}
        THEN [state |-> st,
              result |-> [status |-> "error", message |-> "fixes must be a non-empty dict of field->value."]]
        ELSE IF row_index < 0 \/ row_index >= Len(records)
        THEN [state |-> st,
              result |-> [status |-> "error",
                          message |-> "Row index " \o ToString(row_index) \o " out of range."]]
        ELSE [state |-> st2,
              result |-> [status |-> "fixed",
                          row_index |-> row_index,
                          applied |->
                              [k \in DOMAIN fixes.items |->
                                  [old |-> Get(records[row_index + 1], k, None),
                                   new |-> fixes.items[k]]],
                          remaining_fixes |->
                              Len(new_pending) + Len(st2.remaining_fixes)]]

\* the validity cache with the fingerprint of row row_index marked invalid
MarkInvalid(valid_fp, fingerprints, row_index) ==
    IF row_index >= 0 /\ row_index < Len(fingerprints)
    THEN (fingerprints[row_index + 1] :> FALSE) @@ valid_fp
    ELSE valid_fp

apply_skip_row(st, row_index_arg, t) ==
    LET conv == ToInt(row_index_arg)
        row_index == conv.n
        old_pending == st.pending_fixes
        row_fixes == SelectSeq(old_pending, LAMBDA fx : fx.row_index = row_index)
        new_pending == SelectSeq(old_pending, LAMBDA fx : fx.row_index # row_index)
        st1 == [st EXCEPT !.pending_fixes = new_pending,
                          !.skipped_fixes = @ \o row_fixes,
                          !.validated_row_fingerprints =
                              MarkInvalid(@, st.row_fingerprints, row_index)]
        st2 == StatusAfterFix(_rebatch_fixes(st1, t), t)
    IN  IF ~conv.ok
        THEN [state |-> st,
              result |-> [status |-> "error",
                          message |-> "Invalid row_index: " \o Str(row_index_arg)
                                          \o ". Must be an integer."]]
        ELSE IF row_fixes = <<>>
        THEN [state |-> st,
              result |-> [status |-> "no_op",
                          message |-> "No pending fixes for row " \o ToString(row_index) \o "."]]
        ELSE [state |-> st2,
              result |-> [status |-> "skipped",
                          row_index |-> row_index,
                          remaining_fixes |->
                              Len(new_pending) + Len(st2.remaining_fixes)]]

\* the validity cache after the loop over skipped_row_indices
RECURSIVE MarkAllInvalid(_, _, _)
MarkAllInvalid(valid_fp, fingerprints, rows) ==
    IF rows = {} THEN valid_fp
    ELSE LET r == CHOOSE x \in rows : TRUE
         IN  MarkAllInvalid(MarkInvalid(valid_fp, fingerprints, r),
                            fingerprints, rows \ {r})

\* skip-all that moves the surfaced batch only and drops the held-back errors
apply_skip_all_pending_only(st) ==
    IF st.pending_fixes = <<>> /\ st.remaining_fixes = <<>>
    THEN [state |-> st,
          result |-> [status |-> "no_op", message |-> "No pending fixes to skip."]]
    ELSE [state |->
            [st EXCEPT !.validated_row_fingerprints =
                           MarkAllInvalid(@, st.row_fingerprints,
                                          RowsOf(st.pending_fixes)),
                       !.skipped_fixes = @ \o st.pending_fixes,
                       !.pending_fixes = <<>>,
                       !.remaining_fixes = <<>>,
                       !.status = "RUNNING",
                       !.validation_complete = TRUE,
                       !.waiting_since = <<>>],
          result |-> [status |-> "skipped",
                      action |-> "Proceed directly to process_results",
                      skipped_count |-> Len(st.pending_fixes)]]

apply_skip_all(st) ==
    LET pending == st.pending_fixes
        remaining == st.remaining_fixes
        skipped_row_indices == RowsOf(pending \o remaining)
    IN  IF pending = <<>> /\ remaining = <<>>
        THEN [state |-> st,
              result |-> [status |-> "no_op", message |-> "No pending fixes to skip."]]
        ELSE [state |->
                [st EXCEPT !.validated_row_fingerprints =
                               MarkAllInvalid(@, st.row_fingerprints, skipped_row_indices),
                           !.skipped_fixes = (@ \o pending) \o remaining,
                           !.pending_fixes = <<>>,
                           !.remaining_fixes = <<>>,
                           !.status = "RUNNING",
                           !.validation_complete = TRUE,
                           !.waiting_since = <<>>],
              result |-> [status |-> "skipped",
                          action |-> "Proceed directly to process_results",
                          skipped_count |-> Len(pending) + Len(remaining)]]

(***************************************************************************)
(* Packaging (app/tools/processing.py)                                     *)
(***************************************************************************)
DEFAULT_COST_CENTER_MAP ==
    ("FIN" :> "100") @@ ("HR" :> "200") @@ ("ENG" :> "300") @@ ("OPS" :> "400")

\* round(amount * fx_rate, 2) for an integral fx_rate (the rates of the
\* model's value domain); the CASE has no other arm
AmountUsd(amount, fx_rate) ==
    CASE fx_rate.f = 0 ->
        LET cents == (amount.f * fx_rate.n + 50000) \div 100000
        IN  F(amount.n * fx_rate.n + cents \div 100, (cents % 100) * 100000)

\* the row auto_add_computed_columns leaves
ComputedRow(row) ==
    LET a == ToFloat(Get(row, "amount", I(0)))
        amount == IF a.ok THEN a ELSE [ok |-> TRUE, nan |-> FALSE, n |-> 0, f |-> 0]
        x == ToFloat(Get(row, "fx_rate", F(1, 0)))
        fx_rate == IF x.ok THEN x ELSE [ok |-> TRUE, nan |-> FALSE, n |-> 1, f |-> 0]
        dept == Str(Get(row, "dept", S("")))
        amount_usd == IF amount.nan \/ fx_rate.nan THEN NaN
                      ELSE AmountUsd(amount, fx_rate)
        cost_center == IF dept \in DOMAIN DEFAULT_COST_CENTER_MAP
                       THEN DEFAULT_COST_CENTER_MAP[dept] ELSE "UNMAPPED"
        approval == IF dept = "FIN" /\ ~amount.nan
                       /\ (amount.n > 50000 \/ (amount.n = 50000 /\ amount.f > 0))
                    THEN "YES" ELSE "NO"
    IN  ("amount_usd" :> amount_usd) @@ ("cost_center" :> S(cost_center))
        @@ ("approval_required" :> S(approval)) @@ row

RECURSIVE AppendMissing(_, _)
AppendMissing(columns, cols) ==
    IF cols = <<>> THEN columns
    ELSE AppendMissing(
            IF \E j \in 1..Len(columns) : columns[j] = Head(cols)
            THEN columns ELSE Append(columns, Head(cols)),
            Tail(cols))

auto_add_computed_columns(st) ==
    [st EXCEPT !.dataframe_records =
                   [i \in 1..Len(st.dataframe_records) |->
                       ComputedRow(st.dataframe_records[i])],
               !.dataframe_columns =
                   AppendMissing(@, <<"amount_usd", "cost_center", "approval_required">>)]

\* the indices of a set, ascending, as a sequence
RECURSIVE SortedSeq(_)
SortedSeq(rows) ==
    IF rows = {} THEN <<>>
    ELSE LET m == CHOOSE x \in rows : \A y \in rows : x <= y
         IN  <<m>> \o SortedSeq(rows \ {m})

\* "; ".join of the error messages recorded for row_idx
RECURSIVE ErrorSummary(_, _)
ErrorSummary(fixes, row_idx) ==
    IF fixes = <<>> THEN ""
    ELSE LET rest == ErrorSummary(Tail(fixes), row_idx)
         IN  IF Head(fixes).row_index # row_idx THEN rest
             ELSE IF rest = "" THEN Head(fixes).error_message
             ELSE Head(fixes).error_message \o "; " \o rest

\* the contents of the rows of idx, each with the extra columns of extra(i)
RowsAt(records, idx, skipped_fixes, with_reason) ==
    [j \in 1..Len(idx) |->
        IF with_reason
        THEN ("error_reason" :> S(ErrorSummary(skipped_fixes, idx[j])))
             @@ records[idx[j] + 1]
        ELSE records[idx[j] + 1]]

\* package_results past its guard: st1 is the state with the computed
\* columns, skipped_fixes the skipped list with the stale remaining_fixes
PackageRows(st1, skipped_fixes, error_indices) ==
    IF \E i \in error_indices : i >= Len(st1.dataframe_records)
    THEN \* records[row_idx] raises IndexError
         [state |-> [st1 EXCEPT !.skipped_fixes = skipped_fixes,
                                !.remaining_fixes = <<>>],
          result |-> [status |-> "exception"]]
    ELSE [state |->
            [st1 EXCEPT !.skipped_fixes = skipped_fixes,
                        !.remaining_fixes = <<>>,
                        !.artifacts =
                            [success |->
                                RowsAt(st1.dataframe_records,
                                       SortedSeq((0..(Len(st1.dataframe_records) - 1))
                                                 \ error_indices),
                                       skipped_fixes, FALSE),
                             errors |->
                                RowsAt(st1.dataframe_records, SortedSeq(error_indices),
                                       skipped_fixes, TRUE)],
                        !.status = "COMPLETED"],
          result |-> [status |-> "success",
                      valid_count |->
                          Len(st1.dataframe_records)
                          - Cardinality(error_indices),
                      error_count |-> Cardinality(error_indices)]]

\* package_results without its guard
package_results_unguarded(st) ==
    PackageRows(auto_add_computed_columns([st EXCEPT !.status = "PACKAGING"]),
                st.skipped_fixes \o st.remaining_fixes,
                RowsOf(st.skipped_fixes \o st.remaining_fixes))

package_results(st) ==
    IF st.status = "WAITING_FOR_USER" \/ st.pending_fixes # <<>>
    THEN [state |-> st,
          result |-> [status |-> "error",
                      action |-> "STOP",
                      pending_fixes_count |-> Len(st.pending_fixes)]]
    ELSE PackageRows(auto_add_computed_columns([st EXCEPT !.status = "PACKAGING"]),
                     st.skipped_fixes \o st.remaining_fixes,
                     RowsOf(st.skipped_fixes \o st.remaining_fixes))

(***************************************************************************)
(* The state machine: one session state dict and the tool calls on it.     *)
(***************************************************************************)
VARIABLES
    state,          \* the session state dict
    op,             \* the name of the last tool called
    result,         \* the dict the last tool call returned
    now,            \* the clock time.time() reads; every call takes one tick
    expected,       \* the step the caller was last told to take, "off" once
                    \* the caller has not followed it
    skip_content,   \* row index -> the row's content when the row entered
                    \* the skipped set
    runs,           \* RunManager._runs: run id -> RunContext
    pc,             \* where the run_pipeline task of the run stands
    message,        \* the message run_pipeline sends with the next turn
    removed         \* the <<run id, created_at>> of every context remove_run
                    \* has taken out of the registry

vars == <<state, op, result, now, expected, skip_content, runs, pc, message, removed>>

runvars == <<runs, pc, message, removed>>

\* number of tool calls in a run on a dataset of at most one batch of rows
MaxOps == 5

\* number of tool calls in a run on a dataset of more than one batch
MaxBatchOps == 7

OpsBound(st) ==
    IF Len(st.dataframe_records) > FIX_BATCH_SIZE THEN MaxBatchOps ELSE MaxOps

MkRow(emp, dept, amount, currency, date, vendor, fx) ==
    ("employee_id" :> emp) @@ ("dept" :> dept) @@ ("amount" :> amount)
    @@ ("currency" :> currency) @@ ("spend_date" :> date) @@ ("vendor" :> vendor)
    @@ ("fx_rate" :> fx)

Columns ==
    <<"employee_id", "dept", "amount", "currency", "spend_date", "vendor", "fx_rate">>

\* a row with a department error only
DeptErrorRow(emp) ==
    MkRow(S(emp), S("BAD"), F(1500, 0), S("USD"), S("2024-01-15"), S("Acme Corp"), F(1, 0))

\* two rows: one error on row 0, two errors on row 1
TwoRows ==
    <<DeptErrorRow("EMP001"),
      MkRow(S("EMP002"), S("BAD"), I(-1), S("USD"), S("2024-01-16"), S("Acme Corp"), F(1, 0))>>

\* one fully valid row
OneValidRow ==
    <<MkRow(S("EMP001"), S("ENG"), F(1500, 0), S("USD"), S("2024-01-15"), S("Acme Corp"), F(1, 0))>>

\* seven rows with errors, more than one batch: rows 0..4 and 6 with one
\* error, row 5 with six
SevenRows ==
    <<DeptErrorRow("EMP001"), DeptErrorRow("EMP002"), DeptErrorRow("EMP003"),
      DeptErrorRow("EMP004"), DeptErrorRow("EMP005"),
      MkRow(S("E1"), S("BAD"), I(-1), S("XXX"), S("15/01/2024"), S(""), None),
      DeptErrorRow("EMP007")>>

Datasets == {TwoRows, OneValidRow}

\* the as_of_date arguments of validate_data
AsOfInputs == {None}

\* row_index arguments no operation accepts: not an integer, negative, too large
BadRowInputs(st) == {S("abc"), I(-1), I(Len(st.dataframe_records))}

RowInputs(st) == {I(i) : i \in 0..(Len(st.dataframe_records) - 1)}

\* the (field, new_value) arguments of apply_single_fix
SingleFixInputs == {<<"dept", S("ENG")>>, <<"dept", S("XX")>>}

\* the fixes arguments of apply_batch_fixes: dicts, the empty dict, a non-dict
BatchFixInputs ==
    {[isdict |-> TRUE, items |-> ("dept" :> S("ENG"))],
     [isdict |-> TRUE, items |-> ("dept" :> S("ENG")) @@ ("amount" :> S("1500"))],
     [isdict |-> TRUE, items |-> EmptyDict],
     [isdict |-> FALSE, items |-> EmptyDict]}

\* the session state ingest_file leaves on a new session
Ingested(records) ==
    [dataframe_records |-> records,
     dataframe_columns |-> Columns,
     row_fingerprints |-> compute_all_fingerprints(records),
     validated_row_fingerprints |-> EmptyDict,
     pending_fixes |-> <<>>,
     remaining_fixes |-> <<>>,
     skipped_fixes |-> <<>>,
     status |-> "RUNNING",
     waiting_since |-> <<>>,
     validation_complete |-> FALSE,
     total_error_rows |-> 0,
     artifacts |-> EmptyDict,
     error_message |-> None,
     pending_review |-> <<>>,
     all_errors |-> <<>>,
     skipped_rows |-> <<>>]

\* ingest_file on the session state st, the file read holding records
ingest_file(st, records) ==
    [state |->
        [st EXCEPT !.dataframe_records = records,
                   !.dataframe_columns = Columns,
                   !.row_fingerprints = compute_all_fingerprints(records),
                   !.validated_row_fingerprints = EmptyDict,
                   !.status = "RUNNING",
                   !.pending_review = <<>>,
                   !.all_errors = <<>>,
                   !.skipped_rows = <<>>,
                   !.waiting_since = <<>>],
     result |-> [status |-> "success", row_count |-> Len(records)]]

InitWith(records) ==
    /\ state = Ingested(records)
    /\ op = "ingest_file"
    /\ result = [status |-> "success"]
    /\ now = 0
    /\ expected = "validate"
    /\ skip_content = EmptyDict
    /\ runs = EmptyDict
    /\ pc = "none"
    /\ message = "none"
    /\ removed = {}

Init == \E records \in Datasets : InitWith(records)

\* the step the caller is told to take after a fix or skip of one row
AfterRowOp(r) ==
    IF expected # "wait" THEN "off"
    ELSE IF r.result.status \in {"fixed", "skipped"} /\ r.state.status = "RUNNING"
    THEN "validate"
    ELSE "wait"

\* skip_content once the skipped set is that of st
Recorded(st) ==
    [i \in RowsOf(st.skipped_fixes) |->
        IF i \in DOMAIN skip_content THEN skip_content[i]
        ELSE IF i < Len(st.dataframe_records) THEN st.dataframe_records[i + 1]
        ELSE EmptyDict]

ValidateData(as_of_date) ==
    /\ now < OpsBound(state)
    /\ LET r == validate_data(state, as_of_date, now + 1)
       IN  /\ state' = r.state
           /\ result' = r.result
           /\ skip_content' = Recorded(r.state)
           /\ expected' = IF expected # "validate" THEN "off"
                          ELSE IF r.result.status = "waiting_for_fixes" THEN "wait"
                          ELSE IF r.result.status = "success" THEN "package"
                          ELSE "validate"
    /\ op' = "validate_data"
    /\ now' = now + 1
    /\ UNCHANGED runvars

ApplySingleFix(row_index, field, new_value) ==
    /\ now < OpsBound(state)
    /\ LET r == apply_single_fix(state, row_index, field, new_value, now + 1)
       IN  /\ state' = r.state
           /\ result' = r.result
           /\ skip_content' = Recorded(r.state)
           /\ expected' = AfterRowOp(r)
    /\ op' = "apply_single_fix"
    /\ now' = now + 1
    /\ UNCHANGED runvars

ApplyBatchFixes(row_index, fixes) ==
    /\ now < OpsBound(state)
    /\ LET r == apply_batch_fixes(state, row_index, fixes, now + 1)
       IN  /\ state' = r.state
           /\ result' = r.result
           /\ skip_content' = Recorded(r.state)
           /\ expected' = AfterRowOp(r)
    /\ op' = "apply_batch_fixes"
    /\ now' = now + 1
    /\ UNCHANGED runvars

ApplySkipRow(row_index) ==
    /\ now < OpsBound(state)
    /\ LET r == apply_skip_row(state, row_index, now + 1)
       IN  /\ state' = r.state
           /\ result' = r.result
           /\ skip_content' = Recorded(r.state)
           /\ expected' = AfterRowOp(r)
    /\ op' = "apply_skip_row"
    /\ now' = now + 1
    /\ UNCHANGED runvars

ApplySkipAll ==
    /\ now < OpsBound(state)
    /\ LET r == apply_skip_all(state)
       IN  /\ state' = r.state
           /\ result' = r.result
           /\ skip_content' = Recorded(r.state)
           /\ expected' = IF expected # "wait" THEN "off"
                          ELSE IF r.result.status = "skipped" THEN "package"
                          ELSE "wait"
    /\ op' = "apply_skip_all"
    /\ now' = now + 1
    /\ UNCHANGED runvars

PackageResults ==
    /\ now < OpsBound(state)
    /\ LET r == package_results(state)
       IN  /\ state' = r.state
           /\ result' = r.result
           /\ skip_content' = Recorded(r.state)
           /\ expected' = IF expected # "package" THEN "off"
                          ELSE IF r.result.status = "success" THEN "done"
                          ELSE "package"
    /\ op' = "package_results"
    /\ now' = now + 1
    /\ UNCHANGED runvars

Next ==
    \/ \E a \in AsOfInputs : ValidateData(a)
    \/ \E i \in RowInputs(state) \cup BadRowInputs(state), fx \in SingleFixInputs :
          ApplySingleFix(i, fx[1], fx[2])
    \/ \E i \in RowInputs(state) \cup BadRowInputs(state), fixes \in BatchFixInputs :
          ApplyBatchFixes(i, fixes)
    \/ \E i \in RowInputs(state) \cup BadRowInputs(state) : ApplySkipRow(i)
    \/ ApplySkipAll
    \/ PackageResults

Spec == Init /\ [][Next]_vars

(***************************************************************************)
(* Batch rotation: a dataset of more than one batch of error rows, with    *)
(* skips of every row, skip-all, a fix of the last, held-back row and a    *)
(* fix of two fields of the row with six errors.                           *)
(***************************************************************************)
InitBatch == InitWith(SevenRows)

NextBatch ==
    \/ \E a \in AsOfInputs : ValidateData(a)
    \/ ApplySingleFix(I(Len(state.dataframe_records) - 1), "dept", S("ENG"))
    \/ ApplyBatchFixes(I(FIX_BATCH_SIZE),
                       [isdict |-> TRUE,
                        items |-> ("dept" :> S("ENG")) @@ ("amount" :> S("1500"))])
    \/ \E i \in RowInputs(state) : ApplySkipRow(i)
    \/ ApplySkipAll
    \/ PackageResults

SpecBatch == InitBatch /\ [][NextBatch]_vars

(***************************************************************************)
(* Duplicates, the validity cache and re-ingestion: a dataset with a       *)
(* repeated (employee_id, spend_date) pair and a row dated after today,    *)
(* validated against today and against a later reference date, fixes that *)
(* make one row a copy of another, and a second file loaded into the same  *)
(* session.                                                                *)
(***************************************************************************)
ValidRow(emp, date) ==
    MkRow(S(emp), S("ENG"), F(1500, 0), S("USD"), S(date), S("Acme Corp"), F(1, 0))

\* row 1 repeats the pair of row 0 and has a department error, row 2 is
\* valid, row 3 is dated after today
DupRows ==
    <<ValidRow("EMP002", "2024-01-15"),
      MkRow(S("EMP002"), S("BAD"), F(1500, 0), S("USD"), S("2024-01-15"),
            S("Acme Corp"), F(1, 0)),
      ValidRow("EMP003", "2024-01-15"),
      ValidRow("EMP004", "2099-01-01")>>

\* a second file: four valid rows
CleanRows ==
    <<ValidRow("EMP001", "2024-01-10"), ValidRow("EMP002", "2024-01-10"),
      ValidRow("EMP003", "2024-01-10"), ValidRow("EMP004", "2024-01-10")>>

\* the files loaded into a session that has a file already
ReloadDatasets == {DupRows, CleanRows}

\* the as_of_date arguments: none (today) and a later reference date
CacheAsOfInputs == {None, S("2099-01-01")}

\* the (field, new_value) arguments of apply_single_fix
CacheFixInputs == {<<"dept", S("ENG")>>, <<"employee_id", S("EMP003")>>}

InitCache == InitWith(DupRows)

\* ingest_file called again in the same session
IngestFile(records) ==
    /\ now < OpsBound(state)
    /\ LET r == ingest_file(state, records)
       IN  /\ state' = r.state
           /\ result' = r.result
    /\ skip_content' = skip_content
    /\ expected' = "validate"
    /\ op' = "ingest_file"
    /\ now' = now + 1
    /\ UNCHANGED runvars

NextCache ==
    \/ \E a \in CacheAsOfInputs : ValidateData(a)
    \/ \E i \in RowInputs(state), fx \in CacheFixInputs :
          ApplySingleFix(i, fx[1], fx[2])
    \/ \E i \in RowInputs(state) : ApplySkipRow(i)
    \/ ApplySkipAll
    \/ PackageResults
    \/ \E records \in ReloadDatasets : IngestFile(records)

SpecCache == InitCache /\ [][NextCache]_vars

(***************************************************************************)
(* Row indexes: the validation agent's request_user_fix tool and           *)
(* re-ingestion of a file with fewer rows, on the two-row dataset.         *)
(***************************************************************************)
\* request_user_fix (app/tools/validation.py): the entry is appended as
\* given, the status set
request_user_fix(st, row_index, field, current_value, error_message) ==
    [state |->
        [st EXCEPT !.pending_fixes =
                       Append(@, [row_index |-> row_index,
                                  field |-> field,
                                  current_value |-> current_value,
                                  error_message |-> error_message]),
                   !.status = "WAITING_FOR_USER"],
     result |-> [status |-> "fix_requested",
                 row_index |-> row_index,
                 field |-> field,
                 error_message |-> error_message]]

\* the row_index arguments of request_user_fix: the rows of the file and
\* the first index past them
RequestRowInputs(st) == 0..Len(st.dataframe_records)

\* the files of a second ingest_file: the two rows again, a single row
ShorterDatasets == {TwoRows, OneValidRow}

InitIndex == InitWith(TwoRows)

RequestUserFix(row_index) ==
    /\ now < OpsBound(state)
    /\ LET r == request_user_fix(state, row_index, "dept", "BAD",
                                 "Invalid department 'BAD'")
       IN  /\ state' = r.state
           /\ result' = r.result
           /\ skip_content' = Recorded(r.state)
    /\ expected' = "wait"
    /\ op' = "request_user_fix"
    /\ now' = now + 1
    /\ UNCHANGED runvars

NextIndex ==
    \/ \E a \in AsOfInputs : ValidateData(a)
    \/ \E i \in RequestRowInputs(state) : RequestUserFix(i)
    \/ \E i \in RowInputs(state) : ApplySkipRow(i)
    \/ ApplySkipAll
    \/ PackageResults
    \/ \E records \in ShorterDatasets : IngestFile(records)

SpecIndex == InitIndex /\ [][NextIndex]_vars

(***************************************************************************)
(* Fingerprints as a function of the row (app/utils.py).  Here a row is    *)
(* the dict as Python holds it, the list of its (key, value) items in      *)
(* insertion order; result holds the row and what was computed from it.    *)
(***************************************************************************)
\* the column names in the order sorted() puts them
SortedKeys ==
    <<"amount", "currency", "dept", "employee_id", "fx_rate", "spend_date", "vendor">>

\* the position of key in SortedKeys
KeyRank(key) == CHOOSE j \in 1..Len(SortedKeys) : SortedKeys[j] = key

\* the dict of a list of items
DictOf(items) ==
    [key \in {items[j][1] : j \in 1..Len(items)} |->
        items[CHOOSE j \in 1..Len(items) : items[j][1] = key][2]]

\* sorted(row.items())
SortedItems(items) ==
    [j \in 1..Len(items) |->
        items[CHOOSE m \in 1..Len(items) :
                  Cardinality({q \in 1..Len(items) :
                                   KeyRank(items[q][1]) < KeyRank(items[m][1])})
                  = j - 1]]

\* canonicalize_row on the items of a row: the JSON text as the list of its
\* (key, token) members in the order they are written
canonical_json(items) ==
    [j \in 1..Len(items) |->
        <<SortedItems(items)[j][1], normalize(SortedItems(items)[j][2])>>]

\* the cell values rows are drawn from
FingerprintValues ==
    {None, NaN, S("null"), I(1500), S("1500"), F(1500, 0), F(1, 1234561),
     F(1, 1234564), S("Acme Corp")}

\* the values of the amount cell
AmountValues == {I(1500), S("1500"), NaN, S("null")}

\* the values field can be given
ValuesOf(field) == IF field = "amount" THEN AmountValues ELSE FingerprintValues

\* the rows: an amount and a vendor, inserted in either order
FingerprintRows ==
    {<<<<"amount", a>>, <<"vendor", v>>>> : a \in AmountValues,
                                           v \in FingerprintValues}
    \cup {<<<<"vendor", v>>, <<"amount", a>>>> : a \in AmountValues,
                                               v \in FingerprintValues}

\* items with the value of field replaced
WithValue(items, field, new_value) ==
    [j \in 1..Len(items) |->
        IF items[j][1] = field THEN <<field, new_value>> ELSE items[j]]

InitFingerprint ==
    \E items \in FingerprintRows :
        /\ state = Ingested(<<DictOf(items), DictOf(items)>>)
        /\ op = "none"
        /\ result = [status |-> "none", items |-> items]
        /\ now = 0
        /\ expected = "off"
        /\ skip_content = EmptyDict
        /\ runs = EmptyDict
        /\ pc = "none"
        /\ message = "none"
        /\ removed = {}

\* canonicalize_row(row)
CanonicalizeRow ==
    /\ result' = [status |-> "canonical",
                  items |-> result.items,
                  canonical |-> canonical_json(result.items)]
    /\ op' = "canonicalize_row"
    /\ UNCHANGED <<state, now, expected, skip_content>>
    /\ UNCHANGED runvars

\* record[field] = new_value on row 0, then its fingerprint again
ReplaceValue(field, new_value) ==
    /\ state' =
          [state EXCEPT !.dataframe_records[1][field] = new_value,
                        !.row_fingerprints[1] =
                            compute_row_fingerprint(
                                [state.dataframe_records[1]
                                    EXCEPT ![field] = new_value])]
    /\ result' = [status |-> "replaced",
                  items |-> WithValue(result.items, field, new_value),
                  field |-> field,
                  old_value |-> state.dataframe_records[1][field],
                  new_value |-> new_value,
                  old_canonical |-> canonical_json(result.items),
                  canonical |->
                      canonical_json(WithValue(result.items, field, new_value))]
    /\ op' = "replace_value"
    /\ UNCHANGED <<now, expected, skip_content>>
    /\ UNCHANGED runvars

\* compute_all_fingerprints(records)
ComputeAllFingerprints ==
    /\ result' = [status |-> "fingerprints",
                  items |-> result.items,
                  fingerprints |-> compute_all_fingerprints(state.dataframe_records)]
    /\ op' = "compute_all_fingerprints"
    /\ UNCHANGED <<state, now, expected, skip_content>>
    /\ UNCHANGED runvars

NextFingerprint ==
    \/ CanonicalizeRow
    \/ \E field \in {"amount", "vendor"} :
          \E v \in ValuesOf(field) : ReplaceValue(field, v)
    \/ ComputeAllFingerprints

SpecFingerprint == InitFingerprint /\ [][NextFingerprint]_vars

(***************************************************************************)
(* Run registry (app/run_manager.py).  The methods are plain functions     *)
(* without an await inside, called from coroutines of one event loop, so   *)
(* each call is one step.                                                  *)
(***************************************************************************)
RunContext(run_id, t) ==
    [run_id |-> run_id,
     resume_event |-> FALSE,
     created_at |-> t,
     error |-> None,
     completed |-> FALSE]

\* create_run that registers without looking for the id
create_run_overwrite(reg, run_id, t) ==
    [runs |-> (run_id :> RunContext(run_id, t)) @@ reg, raised |-> FALSE]

\* raised stands for ValueError("Run ... already exists.")
create_run(reg, run_id, t) ==
    IF run_id \in DOMAIN reg
    THEN [runs |-> reg, raised |-> TRUE]
    ELSE [runs |-> (run_id :> RunContext(run_id, t)) @@ reg, raised |-> FALSE]

\* Optional[RunContext]: <<>> is None
get_run(reg, run_id) ==
    IF run_id \in DOMAIN reg THEN <<reg[run_id]>> ELSE <<>>

\* signal_resume that wakes every registered run
signal_resume_all(reg, run_id) ==
    [x \in DOMAIN reg |-> [reg[x] EXCEPT !.resume_event = TRUE]]

signal_resume(reg, run_id) ==
    IF run_id \in DOMAIN reg
    THEN [reg EXCEPT ![run_id].resume_event = TRUE]
    ELSE reg

remove_run(reg, run_id) ==
    [x \in DOMAIN reg \ {run_id} |-> reg[x]]

(***************************************************************************)
(* Answer submission (app/server.py, POST /runs/{run_id}/answers)          *)
(***************************************************************************)
RECURSIVE ApplyFixes(_, _, _, _)

\* the rest of body.fixes after one apply_single_fix returned r
AfterFix(r, fixes, t, count) ==
    ApplyFixes(r.state, Tail(fixes), t,
               IF r.result.status = "fixed" THEN count + 1 ELSE count)

\* for fix in body.fixes: apply_single_fix(...)
ApplyFixes(st, fixes, t, count) ==
    IF fixes = <<>> THEN [state |-> st, count |-> count]
    ELSE AfterFix(apply_single_fix(st, fixes[1].row_index, fixes[1].field,
                                   fixes[1].new_value, t),
                  fixes, t, count)

RECURSIVE ApplyRowFixes(_, _, _, _)

\* the rest of body.row_fixes after one apply_batch_fixes returned r
AfterRowFix(r, row_fixes, t, count) ==
    ApplyRowFixes(r.state, Tail(row_fixes), t,
                  IF r.result.status = "fixed"
                  THEN count + Cardinality(DOMAIN row_fixes[1].fixes.items)
                  ELSE count)

\* for rf in body.row_fixes: apply_batch_fixes(...)
ApplyRowFixes(st, row_fixes, t, count) ==
    IF row_fixes = <<>> THEN [state |-> st, count |-> count]
    ELSE AfterRowFix(apply_batch_fixes(st, row_fixes[1].row_index,
                                       row_fixes[1].fixes, t),
                     row_fixes, t, count)

RECURSIVE ApplySkipRows(_, _, _, _)

\* the rest of body.skip_rows after one apply_skip_row returned r
AfterSkipRow(r, skip_rows, t, count) ==
    ApplySkipRows(r.state, Tail(skip_rows), t,
                  IF r.result.status = "skipped" THEN count + 1 ELSE count)

\* for row_idx in body.skip_rows: apply_skip_row(...)
ApplySkipRows(st, skip_rows, t, count) ==
    IF skip_rows = <<>> THEN [state |-> st, count |-> count]
    ELSE AfterSkipRow(apply_skip_row(st, skip_rows[1], t), skip_rows, t, count)

\* the skip_all branch of the submission
BodySkipAll(r) ==
    [state |-> r.state,
     applied_count |-> 0,
     skipped_count |-> IF r.result.status = "skipped" THEN r.result.skipped_count
                       ELSE 0]

\* the end of the other branch: a is the fixes', k the skips' outcome
BodyCounts(a, k) ==
    [state |-> k.state, applied_count |-> a.count, skipped_count |-> k.count]

\* skip_rows after fixes and row_fixes gave a
BodySkipRows(a, body, t) ==
    BodyCounts(a, ApplySkipRows(a.state, body.skip_rows, t, 0))

\* row_fixes after fixes gave a
BodyRowFixes(a, body, t) ==
    BodySkipRows(ApplyRowFixes(a.state, body.row_fixes, t, a.count), body, t)

\* a body applies in the order skip_all, fixes, row_fixes, skip_rows; a
\* missing list is the empty list
ApplyBody(st, body, t) ==
    IF body.skip_all THEN BodySkipAll(apply_skip_all(st))
    ELSE BodyRowFixes(ApplyFixes(st, body.fixes, t, 0), body, t)

\* submit_answers that takes a submission whatever the status
AcceptsAnswersAlways(current_status) == TRUE

\* the status check of submit_answers
AcceptsAnswers(current_status) == current_status = "WAITING_FOR_USER"

\* a submit_answers that signals only when nothing is left pending
SignalsResumeWhenRunning(new_status) == new_status = "RUNNING"

\* whether submit_answers calls signal_resume
SignalsResume(new_status) ==
    new_status \in {"RUNNING", "FIXING"} /\ new_status # "WAITING_FOR_USER"

\* the handler past its checks, a the applied body.  AnswerResponse is built
\* without its required fields pending_review_count and
\* total_errors_remaining, so the constructor raises after the state has been
\* written and the request ends as an internal server error; the counts are
\* the handler's local values at that point.
AnswersApplied(reg, a, run_id) ==
    [runs |-> IF SignalsResume(a.state.status) THEN signal_resume(reg, run_id)
              ELSE reg,
     state |-> a.state,
     response |-> [run_id |-> run_id,
                   code |-> 500,
                   detail |-> "Internal Server Error",
                   status |-> a.state.status,
                   applied_count |-> a.applied_count,
                   skipped_count |-> a.skipped_count,
                   pending_fixes_count |-> Len(a.state.pending_fixes),
                   remaining_fixes_count |-> Len(a.state.remaining_fixes)]]

\* an HTTPException
Rejected(reg, st, run_id, code, detail) ==
    [runs |-> reg,
     state |-> st,
     response |-> [run_id |-> run_id, code |-> code, detail |-> detail]]

\* session_found is what session_service.get_session returns for the run
submit_answers(reg, st, run_id, body, session_found, t) ==
    IF get_run(reg, run_id) = <<>>
    THEN Rejected(reg, st, run_id, 404, "Run not found.")
    ELSE IF ~session_found
    THEN Rejected(reg, st, run_id, 404, "Session for run not found.")
    ELSE IF ~AcceptsAnswers(st.status)
    THEN Rejected(reg, st, run_id, 409,
                  "Run is not waiting for user input (status: " \o st.status \o ").")
    ELSE AnswersApplied(reg, ApplyBody(st, body, t), run_id)

(***************************************************************************)
(* Background loop (app/run_manager.py, run_pipeline) of one run.  pc is   *)
(* "none" before the run exists, "turn" while runner.run_async is being    *)
(* consumed, "wait" while the task is blocked on resume_event, "failing"   *)
(* inside the except handler and "returned" after the coroutine returned.  *)
(* A session lookup that raises is the step Fault.                         *)
(***************************************************************************)
RunId == "r1"

\* an id no run was created with
OtherRunId == "r2"

\* the session state create_async_run creates, with the defaults
\* on_before_agent fills in
SessionInitial ==
    [Ingested(<<>>) EXCEPT !.dataframe_columns = <<>>]

\* the message after the human-wait
NextMessage(current_status) ==
    IF current_status \in {"RUNNING", "FIXING"} THEN "revalidate" ELSE "continue"

\* the check of the session after a turn: found is whether get_session
\* returned a session
AfterTurn(ctx, st, msg, found) ==
    IF ~found
    THEN [ctx |-> [ctx EXCEPT !.error = S("Session not found after agent turn"),
                              !.completed = TRUE],
          pc |-> "returned", message |-> msg]
    ELSE IF st.status \in {"COMPLETED", "FAILED"}
    THEN [ctx |-> [ctx EXCEPT !.completed = TRUE,
                              !.error = IF st.status = "FAILED"
                                        THEN IF st.error_message = None
                                             THEN S("Pipeline failed")
                                             ELSE st.error_message
                                        ELSE @],
          pc |-> "returned", message |-> msg]
    ELSE IF st.status = "WAITING_FOR_USER"
    THEN [ctx |-> [ctx EXCEPT !.resume_event = FALSE],
          pc |-> "wait", message |-> msg]
    ELSE [ctx |-> ctx, pc |-> "turn", message |-> "continue"]

\* a human-wait timeout that leaves the fixes as they are
HitlTimeoutKeeps(st, found) == st

\* the except asyncio.TimeoutError branch
HitlTimeout(st, found) ==
    IF found THEN apply_skip_all(st).state ELSE st

\* the re-fetch of the session after the human-wait
AfterWait(ctx, st, msg, found) ==
    IF ~found
    THEN [ctx |-> [ctx EXCEPT !.error = S("Session lost during HITL wait"),
                              !.completed = TRUE],
          pc |-> "returned", message |-> msg]
    ELSE [ctx |-> ctx, pc |-> "turn", message |-> NextMessage(st.status)]

\* the except Exception handler up to its session lookup
OnException(ctx) ==
    [ctx EXCEPT !.error = S("Internal pipeline error"), !.completed = TRUE]

\* the handler's attempt to mark the session: outcome is what its
\* get_session does
MarkSessionFailed(st, outcome) ==
    IF outcome = "found"
    THEN [st EXCEPT !.status = "FAILED",
                    !.error_message = S("Internal pipeline error")]
    ELSE st

\* number of steps of a run
MaxRunOps == 8

RunDatasets == {TwoRows, OneValidRow, SevenRows}

LookupOutcomes == {"found", "none", "raises"}

Fix(row_index, field, new_value) ==
    [row_index |-> I(row_index), field |-> field, new_value |-> new_value]

RowFix(row_index, items) ==
    [row_index |-> I(row_index), fixes |-> [isdict |-> TRUE, items |-> items]]

Body(skip_all, fixes, row_fixes, skip_rows) ==
    [skip_all |-> skip_all, fixes |-> fixes, row_fixes |-> row_fixes,
     skip_rows |-> skip_rows]

\* the request bodies: skip-all, a fix of one row, fixes of rows 0 and 1, a
\* skip of rows 0 and 1, a fix out of range, the empty body
Bodies ==
    {Body(TRUE, <<>>, <<>>, <<>>),
     Body(FALSE, <<Fix(0, "dept", S("ENG"))>>, <<>>, <<>>),
     Body(FALSE, <<Fix(0, "dept", S("ENG"))>>,
          <<RowFix(1, ("dept" :> S("ENG")) @@ ("amount" :> S("1500")))>>, <<>>),
     Body(FALSE, <<>>, <<>>, <<I(0), I(1)>>),
     Body(FALSE, <<Fix(99, "dept", S("ENG"))>>, <<>>, <<>>),
     Body(FALSE, <<>>, <<>>, <<>>)}

InitRun ==
    /\ state = SessionInitial
    /\ op = "none"
    /\ result = [status |-> "none"]
    /\ now = 0
    /\ expected = "off"
    /\ skip_content = EmptyDict
    /\ runs = EmptyDict
    /\ pc = "none"
    /\ message = "none"
    /\ removed = {}

\* POST /runs: the session, the registration, the task
CreateAsyncRun ==
    /\ pc = "none"
    /\ now < MaxRunOps
    /\ state' = SessionInitial
    /\ runs' = create_run(runs, RunId, now + 1).runs
    /\ pc' = "turn"
    /\ message' = "uploaded"
    /\ op' = "create_async_run"
    /\ result' = [run_id |-> RunId, status |-> "RUNNING"]
    /\ now' = now + 1
    /\ UNCHANGED <<expected, skip_content, removed>>

\* the agent loads the uploaded file during a turn
AgentIngest(records) ==
    /\ pc = "turn"
    /\ now < MaxRunOps
    /\ state.dataframe_records = <<>>
    /\ state' = Ingested(records)
    /\ op' = "ingest_file"
    /\ result' = [status |-> "success"]
    /\ now' = now + 1
    /\ UNCHANGED <<expected, skip_content, runs, pc, message, removed>>

\* the agent validates during a turn
AgentValidate ==
    /\ pc = "turn"
    /\ now < MaxRunOps
    /\ state.dataframe_records # <<>>
    /\ LET r == validate_data(state, None, now + 1)
       IN  state' = r.state /\ result' = r.result
    /\ op' = "validate_data"
    /\ now' = now + 1
    /\ UNCHANGED <<expected, skip_content, runs, pc, message, removed>>

\* the agent packages during a turn
AgentPackage ==
    /\ pc = "turn"
    /\ now < MaxRunOps
    /\ state.dataframe_records # <<>>
    /\ LET r == package_results(state)
       IN  state' = r.state /\ result' = r.result
    /\ op' = "package_results"
    /\ now' = now + 1
    /\ UNCHANGED <<expected, skip_content, runs, pc, message, removed>>

\* run_async is exhausted and the loop looks at the session
TurnEnd(found) ==
    /\ pc = "turn"
    /\ now < MaxRunOps
    /\ LET a == AfterTurn(runs[RunId], state, message, found)
       IN  /\ runs' = [runs EXCEPT ![RunId] = a.ctx]
           /\ pc' = a.pc
           /\ message' = a.message
    /\ op' = "turn_end"
    /\ result' = [session |-> found]
    /\ now' = now + 1
    /\ UNCHANGED <<state, expected, skip_content, removed>>

\* resume_event is set: wait_for returns
Resume(found) ==
    /\ pc = "wait"
    /\ now < MaxRunOps
    /\ runs[RunId].resume_event
    /\ LET a == AfterWait(runs[RunId], state, message, found)
       IN  /\ runs' = [runs EXCEPT ![RunId] = a.ctx]
           /\ pc' = a.pc
           /\ message' = a.message
    /\ op' = "resume"
    /\ result' = [session |-> found]
    /\ now' = now + 1
    /\ UNCHANGED <<state, expected, skip_content, removed>>

\* no signal within HITL_TIMEOUT_SECONDS: wait_for raises TimeoutError
Timeout(found) ==
    /\ pc = "wait"
    /\ now < MaxRunOps
    /\ ~runs[RunId].resume_event
    /\ state' = HitlTimeout(state, found)
    /\ LET a == AfterWait(runs[RunId], HitlTimeout(state, found), message, found)
       IN  /\ runs' = [runs EXCEPT ![RunId] = a.ctx]
           /\ pc' = a.pc
           /\ message' = a.message
    /\ op' = "timeout"
    /\ result' = [session |-> found]
    /\ now' = now + 1
    /\ UNCHANGED <<expected, skip_content, removed>>

\* an exception inside the loop: a turn or a session lookup raises
Fault ==
    /\ pc \in {"turn", "wait"}
    /\ now < MaxRunOps
    /\ runs' = [runs EXCEPT ![RunId] = OnException(@)]
    /\ pc' = "failing"
    /\ op' = "fault"
    /\ result' = [status |-> "exception"]
    /\ now' = now + 1
    /\ UNCHANGED <<state, expected, skip_content, message, removed>>

\* the handler's session lookup returns or raises, and run_pipeline ends
MarkFailed(outcome) ==
    /\ pc = "failing"
    /\ now < MaxRunOps
    /\ state' = MarkSessionFailed(state, outcome)
    /\ pc' = "returned"
    /\ op' = "mark_failed"
    /\ result' = [session |-> outcome]
    /\ now' = now + 1
    /\ UNCHANGED <<expected, skip_content, runs, message, removed>>

\* POST /runs/{run_id}/answers
SubmitAnswers(run_id, body, session_found) ==
    /\ now < MaxRunOps
    /\ LET r == submit_answers(runs, state, run_id, body, session_found, now + 1)
       IN  /\ runs' = r.runs
           /\ state' = r.state
           /\ result' = r.response
    /\ op' = "submit_answers"
    /\ now' = now + 1
    /\ UNCHANGED <<expected, skip_content, pc, message, removed>>

NextRun ==
    \/ CreateAsyncRun
    \/ \E records \in RunDatasets : AgentIngest(records)
    \/ AgentValidate
    \/ AgentPackage
    \/ \E found \in BOOLEAN : TurnEnd(found)
    \/ \E found \in BOOLEAN : Resume(found)
    \/ \E found \in BOOLEAN : Timeout(found)
    \/ Fault
    \/ \E outcome \in LookupOutcomes : MarkFailed(outcome)
    \/ \E run_id \in {RunId, OtherRunId}, body \in Bodies, found \in BOOLEAN :
          SubmitAnswers(run_id, body, found)

SpecRun == InitRun /\ [][NextRun]_vars

\* the steps the task takes by itself once the event loop schedules it
LoopStep ==
    \/ \E found \in BOOLEAN : TurnEnd(found)
    \/ \E found \in BOOLEAN : Resume(found)
    \/ \E found \in BOOLEAN : Timeout(found)
    \/ \E outcome \in LookupOutcomes : MarkFailed(outcome)

\* the event loop keeps scheduling the task; requests and what the agent
\* does in a turn come as they may
FairSpecRun == SpecRun /\ WF_vars(LoopStep)

(***************************************************************************)
(* The registry under calls in any order on two ids.                       *)
(***************************************************************************)
RegistryIds == {RunId, OtherRunId}

\* number of registry calls
MaxRegistryOps == 5

CreateRun(run_id) ==
    /\ now < MaxRegistryOps
    /\ LET r == create_run(runs, run_id, now + 1)
       IN  /\ runs' = r.runs
           /\ result' = [run_id |-> run_id, raised |-> r.raised,
                         ctx |-> IF r.raised THEN <<>> ELSE <<r.runs[run_id]>>]
    /\ op' = "create_run"
    /\ now' = now + 1
    /\ UNCHANGED <<state, expected, skip_content, pc, message, removed>>

GetRun(run_id) ==
    /\ now < MaxRegistryOps
    /\ result' = [run_id |-> run_id, raised |-> FALSE, ctx |-> get_run(runs, run_id)]
    /\ op' = "get_run"
    /\ now' = now + 1
    /\ UNCHANGED <<state, expected, skip_content, runs, pc, message, removed>>

SignalResume(run_id) ==
    /\ now < MaxRegistryOps
    /\ runs' = signal_resume(runs, run_id)
    /\ result' = [run_id |-> run_id, raised |-> FALSE, ctx |-> <<>>]
    /\ op' = "signal_resume"
    /\ now' = now + 1
    /\ UNCHANGED <<state, expected, skip_content, pc, message, removed>>

RemoveRun(run_id) ==
    /\ now < MaxRegistryOps
    /\ runs' = remove_run(runs, run_id)
    /\ removed' = IF run_id \in DOMAIN runs
                  THEN removed \cup {<<run_id, runs[run_id].created_at>>}
                  ELSE removed
    /\ result' = [run_id |-> run_id, raised |-> FALSE, ctx |-> <<>>]
    /\ op' = "remove_run"
    /\ now' = now + 1
    /\ UNCHANGED <<state, expected, skip_content, pc, message>>

NextRegistry ==
    \E run_id \in RegistryIds :
        \/ CreateRun(run_id)
        \/ GetRun(run_id)
        \/ SignalResume(run_id)
        \/ RemoveRun(run_id)

SpecRegistry == InitRun /\ [][NextRegistry]_vars

(***************************************************************************)
(* Properties                                                              *)
(***************************************************************************)
PendingRows == RowsOf(state.pending_fixes)

HeldBackRows == RowsOf(state.remaining_fixes)

SkippedRows == RowsOf(state.skipped_fixes)

RowIndices == 0..(Len(state.dataframe_records) - 1)

\* the last call was a fix or a skip of one row and succeeded
RowOpSucceeded ==
    /\ op \in {"apply_single_fix", "apply_batch_fixes", "apply_skip_row"}
    /\ result.status \in {"fixed", "skipped"}

\* row i of recs passes every business rule against the reference date
RowPasses(recs, i, ref_date) ==
    RowErrors(recs[i + 1], ref_date,
              \E j \in 0..(i - 1) : RowPair(recs[j + 1]) = RowPair(recs[i + 1]),
              -1) = <<>>

\* the entry's recorded value is still the value of its field in the row
EntryCurrent(recs, e) ==
    e.current_value = Str(Get(recs[e.row_index + 1], e.field, S("")))

\* C1: pop completeness, single fix: after a successful apply_single_fix on
\* row i the pending batch holds no entry of row i, whichever field was fixed.
C1_PopCompleteSingle ==
    (op = "apply_single_fix" /\ result.status = "fixed")
        => result.row_index \notin PendingRows

\* C2: pop completeness, batch fix: after a successful apply_batch_fixes on
\* row i the pending batch holds no entry of row i, also when the fixes name
\* only some of the fields with pending entries, and every supplied field
\* has been written to the row.
C2_PopCompleteBatch ==
    (op = "apply_batch_fixes" /\ result.status = "fixed")
        => /\ result.row_index \notin PendingRows
           /\ \A k \in DOMAIN result.applied :
                 state.dataframe_records[result.row_index + 1][k]
                     = result.applied[k].new

\* C3: monotonic skip: a row in the skipped set whose content is what it
\* was when the row was skipped has no entry in the pending batch.
C3_MonotonicSkip ==
    \A i \in DOMAIN skip_content :
        state.dataframe_records[i + 1] = skip_content[i] => i \notin PendingRows

\* C4: clean-or-waived hand-off: when the caller has followed every returned
\* action and package_results has completed, every row outside the skipped
\* set passes all business rules.
C4_CleanOrWaived ==
    (expected = "done" /\ state.status = "COMPLETED")
        => \A i \in RowIndices \ SkippedRows :
              RowPasses(state.dataframe_records, i, Today)

C6_SkippedCountIsRows ==
    [][(op' = "apply_skip_all" /\ result'.status = "skipped")
        => result'.skipped_count = Cardinality(PendingRows \cup HeldBackRows)]_vars

\* C7: apply_skip_all adds a row to the skipped set only if the row has an
\* error entry whose recorded current_value is still the row's value.
C7_SkipAllExcludesStale ==
    [][(op' = "apply_skip_all" /\ result'.status = "skipped")
        => \A i \in SkippedRows' \ SkippedRows :
              \E j \in 1..Len(state.pending_fixes \o state.remaining_fixes) :
                 LET e == (state.pending_fixes \o state.remaining_fixes)[j]
                 IN  e.row_index = i /\ EntryCurrent(state.dataframe_records, e)]_vars

\* C8: input errors mutate nothing: apply_single_fix and apply_batch_fixes
\* with a row_index that is no integer, negative or too large, and
\* apply_batch_fixes with an empty or non-dict payload, return status error
\* and leave the state as it was.
C8_InputErrorsMutateNothing ==
    /\ \A i \in BadRowInputs(state), fx \in SingleFixInputs :
          /\ apply_single_fix(state, i, fx[1], fx[2], now + 1).result.status = "error"
          /\ apply_single_fix(state, i, fx[1], fx[2], now + 1).state = state
    /\ \A i \in BadRowInputs(state), fixes \in BatchFixInputs :
          /\ apply_batch_fixes(state, i, fixes, now + 1).result.status = "error"
          /\ apply_batch_fixes(state, i, fixes, now + 1).state = state
    /\ \A i \in RowInputs(state), fixes \in BatchFixInputs :
          (~fixes.isdict \/ DOMAIN fixes.items = {})
              => /\ apply_batch_fixes(state, i, fixes, now + 1).result.status = "error"
                 /\ apply_batch_fixes(state, i, fixes, now + 1).state = state

\* a fix with a bad input was rejected while errors were under review
C8_Witness ==
    /\ op \in {"apply_single_fix", "apply_batch_fixes"}
    /\ result.status = "error"
    /\ state.pending_fixes # <<>>
    /\ state.status = "WAITING_FOR_USER"

\* C9: apply_skip_row(i) is a no-op exactly when row i has no active error,
\* surfaced or held back; otherwise it adds i to the skipped set, marks its
\* cache entry invalid and removes it from the pending batch.
C9_SkipRowNoOpIffNoError ==
    \A i \in RowIndices :
        LET r == apply_skip_row(state, I(i), now + 1)
        IN  IF i \notin PendingRows \cup HeldBackRows
            THEN r.result.status = "no_op" /\ r.state = state
            ELSE /\ r.result.status = "skipped"
                 /\ i \in RowsOf(r.state.skipped_fixes)

\* C10: stay-WAITING rule: after a successful fix or skip of one row the
\* status is WAITING_FOR_USER with a refreshed wait timestamp when the
\* pending batch is not empty, and RUNNING only when it is empty.
C10_StayWaiting ==
    RowOpSucceeded
        => IF state.pending_fixes # <<>>
           THEN state.status = "WAITING_FOR_USER" /\ state.waiting_since = <<now>>
           ELSE state.status = "RUNNING"

\* C11: when a successful fix or skip of one row empties the pending batch,
\* the wait timestamp is cleared to null and the status becomes RUNNING.
C11_EmptyBatchClearsWait ==
    (RowOpSucceeded /\ state.pending_fixes = <<>>)
        => state.waiting_since = <<>> /\ state.status = "RUNNING"

\* the run is registered
Registered == RunId \in DOMAIN runs

\* the last step was a submission submit_answers took and applied
Accepted(response) == response.code \notin {404, 409}

\* the steps the background loop takes
LoopSteps ==
    {"ingest_file", "validate_data", "package_results", "turn_end", "resume",
     "timeout", "fault", "mark_failed"}

\* C12: conflict rejection: a submission for a registered run whose session
\* status is not WAITING_FOR_USER is answered 409, applies no fix or skip,
\* leaves the session state as it was and raises no resume signal.
C12_ConflictRejection ==
    [][(/\ op' = "submit_answers"
        /\ result'.run_id \in DOMAIN runs
        /\ result'.detail # "Session for run not found."
        /\ state.status # "WAITING_FOR_USER")
        => /\ result'.code = 409
           /\ state' = state
           /\ runs' = runs]_vars

\* a second submission is refused while fixes are still pending, the first
\* one having moved the status away from WAITING_FOR_USER
C12_Witness ==
    /\ op = "submit_answers"
    /\ result.code = 409
    /\ Registered
    /\ state.pending_fixes # <<>>

\* C13: mutual exclusion of loop and submission: whenever a submission is
\* accepted and changes the session state the loop is blocked in the
\* human-wait, not inside a processing turn, and the resume signal is raised
\* only by the step that has applied a whole accepted submission.
C13_LoopSubmitExclusion ==
    [][/\ (op' = "submit_answers" /\ Accepted(result') /\ state' # state)
            => pc = "wait"
       /\ (Registered /\ ~runs[RunId].resume_event /\ runs'[RunId].resume_event)
            => op' = "submit_answers" /\ Accepted(result')]_vars

\* C14: submit_answers raises the resume signal only if the pending batch
\* is empty after the submission has been applied.
C14_ResumeOnlyWhenResolved ==
    [][(/\ op' = "submit_answers"
        /\ Registered
        /\ ~runs[RunId].resume_event
        /\ runs'[RunId].resume_event)
        => state'.pending_fixes = <<>>]_vars

\* C15: timeout path: when the run is blocked in the human-wait with status
\* WAITING_FOR_USER and pending entries and the wait times out, skip-all is
\* applied: the pending batch and the held-back set are empty, every row
\* that had an outstanding error is in the skipped set, the status is not
\* WAITING_FOR_USER, and the loop goes on to its next turn, not failed.
C15_TimeoutSkipsAll ==
    [][(/\ op' = "timeout"
        /\ result'.session
        /\ state.status = "WAITING_FOR_USER"
        /\ state.pending_fixes # <<>>)
        => /\ state'.pending_fixes = <<>>
           /\ state'.remaining_fixes = <<>>
           /\ (PendingRows \cup HeldBackRows) \subseteq SkippedRows'
           /\ state'.status # "WAITING_FOR_USER"
           /\ pc' = "turn"
           /\ ~runs'[RunId].completed
           /\ runs'[RunId].error = None]_vars

\* the wait timed out on a dataset of more than one batch of error rows and
\* the loop is in its next turn
C15_Witness ==
    /\ op = "timeout"
    /\ result.session
    /\ pc = "turn"
    /\ message = "revalidate"
    /\ Cardinality(SkippedRows) > FIX_BATCH_SIZE

\* C16: fault containment: an exception inside the loop ends the loop with
\* completed set and the generic error, and leaves the session status
\* FAILED with the same generic error_message.
C16_FaultContainment ==
    (op = "mark_failed")
        => /\ pc = "returned"
           /\ runs[RunId].completed
           /\ runs[RunId].error = S("Internal pipeline error")
           /\ state.status = "FAILED"
           /\ state.error_message = S("Internal pipeline error")

\* C17: terminal stop: a turn that ends with status COMPLETED or FAILED
\* stops the loop and sets completed; completed is true exactly when
\* run_pipeline has returned; once it is true the loop takes no further
\* step; error is set only on a completed run.
C17_TerminalStop ==
    [][Registered
        => /\ (op' = "turn_end" /\ result'.session
                  /\ state.status \in {"COMPLETED", "FAILED"})
                 => pc' = "returned" /\ runs'[RunId].completed
           /\ runs'[RunId].completed <=> pc' = "returned"
           /\ runs[RunId].completed => op' \notin LoopSteps
           /\ runs'[RunId].error # None => runs'[RunId].completed]_vars

\* C18: run registry contract: create_run on a registered id raises and
\* changes nothing; get_run returns the registered context, None for an
\* unregistered id; remove_run and signal_resume on an unregistered id do
\* nothing; signal_resume sets the event of that run and of no other.
C18_RegistryContract ==
    [][/\ op' = "create_run"
            => IF result'.run_id \in DOMAIN runs
               THEN result'.raised /\ runs' = runs
               ELSE /\ ~result'.raised
                    /\ DOMAIN runs' = DOMAIN runs \cup {result'.run_id}
                    /\ \A x \in DOMAIN runs : runs'[x] = runs[x]
                    /\ result'.ctx = <<runs'[result'.run_id]>>
       /\ op' = "get_run"
            => /\ runs' = runs
               /\ result'.ctx = IF result'.run_id \in DOMAIN runs
                                THEN <<runs[result'.run_id]>> ELSE <<>>
       /\ op' = "remove_run"
            => /\ DOMAIN runs' = DOMAIN runs \ {result'.run_id}
               /\ \A x \in DOMAIN runs' : runs'[x] = runs[x]
       /\ op' = "signal_resume"
            => /\ DOMAIN runs' = DOMAIN runs
               /\ \A x \in DOMAIN runs :
                     runs'[x] = IF x = result'.run_id
                                THEN [runs[x] EXCEPT !.resume_event = TRUE]
                                ELSE runs[x]]_vars

\* two runs are registered and a signal has reached one of them only
C18_Witness ==
    /\ op = "signal_resume"
    /\ DOMAIN runs = RegistryIds
    /\ runs[result.run_id].resume_event
    /\ \E x \in RegistryIds : ~runs[x].resume_event

\* C19: registry race freedom: in any order of create_run, get_run,
\* signal_resume and remove_run calls, create_run succeeds only for an id
\* that is not registered, and get_run returns only a context that is
\* registered under that id when the lookup runs and has not been removed.
C19_RegistryRaceFree ==
    [][/\ (op' = "create_run" /\ ~result'.raised)
            => result'.run_id \notin DOMAIN runs
       /\ (op' = "get_run" /\ result'.ctx # <<>>)
            => /\ result'.run_id \in DOMAIN runs
               /\ result'.ctx[1] = runs[result'.run_id]
               /\ result'.ctx[1].run_id = result'.run_id
               /\ <<result'.run_id, result'.ctx[1].created_at>> \notin removed]_vars

\* a create_run is refused for an id that was registered, removed and
\* registered again
C19_Witness ==
    /\ op = "create_run"
    /\ result.raised
    /\ \E c \in removed : c[1] = result.run_id

\* C20: RunContext lifecycle: a run that has completed is eventually
\* removed from the registry.
C20_CompletedRunRemoved ==
    (Registered /\ runs[RunId].completed) ~> ~Registered

\* the entries of fixes that belong to row i
EntriesOf(fixes, i) == SelectSeq(fixes, LAMBDA fx : fx.row_index = i)

\* the rows with an entry in the pending batch or the held-back set
OutstandingRows == PendingRows \cup HeldBackRows

\* the k smallest members of rows
Smallest(rows, k) == {r \in rows : Cardinality({q \in rows : q < r}) < k}

C22_BatchSizeBound ==
    Cardinality(PendingRows) <= FIX_BATCH_SIZE

\* a skip has rotated the held-back rows into the pending batch
C22_Witness ==
    /\ op = "apply_skip_row"
    /\ result.status = "skipped"
    /\ PendingRows # {}
    /\ \A i \in PendingRows : i >= FIX_BATCH_SIZE

\* the error messages of a duplicate violation on row j
DuplicateMessages(j) ==
    {Rule8(state.dataframe_records[j + 1], TRUE, i)[1].error : i \in 0..(j - 1)}

\* validate_data has reported a duplicate violation on row j
DuplicateReported(j) ==
    \E k \in 1..Len(state.pending_fixes \o state.remaining_fixes) :
        LET fx == (state.pending_fixes \o state.remaining_fixes)[k]
        IN  fx.row_index = j /\ fx.error_message \in DuplicateMessages(j)

\* some row before row j has the (employee_id, spend_date) pair of row j
EarlierOccurrences(j) ==
    {i \in 0..(j - 1) :
        RowPair(state.dataframe_records[i + 1]) = RowPair(state.dataframe_records[j + 1])}

\* C23: duplicate-key detection: validate_data reports a duplicate
\* (employee_id, spend_date) violation on row j if and only if j is not
\* user-skipped and some row i < j has the same pair; so the first
\* occurrence is never flagged, a row cached as valid is flagged when it is
\* a later occurrence, and cache-hit and user-skipped rows count as earlier
\* occurrences.
C23_DuplicateDetection ==
    (op = "validate_data" /\ result.status # "error")
        => \A j \in RowIndices :
              DuplicateReported(j)
                  <=> (j \notin SkippedRows /\ EarlierOccurrences(j) # {})

\* a duplicate is reported on a row whose only earlier occurrence is a
\* user-skipped row
C23_Witness ==
    /\ op = "validate_data"
    /\ \E j \in RowIndices :
          /\ DuplicateReported(j)
          /\ EarlierOccurrences(j) \subseteq SkippedRows

\* the rows the next validate_data passes over without evaluating them
PassedRows ==
    ValidateLoop(0, ValidateInit, state.dataframe_records,
                 ValidateFingerprints(state), state.validated_row_fingerprints,
                 SkippedRows, Today).passed

\* C24: mutated rows are rechecked: after apply_single_fix or
\* apply_batch_fixes has written to row i, the next validate_data evaluates
\* row i against the rules; it does not pass over the row, which is what
\* counts a row in skipped_unchanged.
C24_MutatedRowsRechecked ==
    [][(/\ op \in {"apply_single_fix", "apply_batch_fixes"}
        /\ result.status = "fixed"
        /\ op' = "validate_data"
        /\ result'.status # "error")
        => result.row_index \notin PassedRows]_vars

\* the rows validate_data reports errors for, called on st with as_of_date
ReportedErrorRows(st, as_of_date) ==
    RowsOf(validate_data(st, as_of_date, now + 1).state.pending_fixes)
    \cup RowsOf(validate_data(st, as_of_date, now + 1).state.remaining_fixes)

\* the session state with an empty validity cache
WithEmptyCache(st) == [st EXCEPT !.validated_row_fingerprints = EmptyDict]

\* C25: cache-skip correctness: in every reachable state and for every
\* reference date, the rows validate_data reports errors for when it uses
\* the validity cache are the rows it reports when it evaluates the same
\* rows with an empty cache.
C25_CacheSkipCorrect ==
    \A a \in CacheAsOfInputs :
        ReportedErrorRows(state, a) = ReportedErrorRows(WithEmptyCache(state), a)

\* the last step was a successful apply_single_fix or apply_batch_fixes
FixSucceeded ==
    op \in {"apply_single_fix", "apply_batch_fixes"} /\ result.status = "fixed"

\* C26: no stale fingerprints: after every successful apply_single_fix or
\* apply_batch_fixes on row i, row_fingerprints[i] is the fingerprint of the
\* row's current content, the fingerprint list is parallel to the records
\* (same length, the other rows and their fingerprints untouched), and the
\* fingerprint the row had before the fix is no key of the validity cache;
\* record, fingerprint and cache change in the one step.
C26_NoStaleFingerprint ==
    [][FixSucceeded'
        => /\ state'.row_fingerprints[result'.row_index + 1]
                 = compute_row_fingerprint(
                       state'.dataframe_records[result'.row_index + 1])
           /\ Len(state'.row_fingerprints) = Len(state'.dataframe_records)
           /\ \A k \in 1..Len(state.row_fingerprints) :
                 k # result'.row_index + 1
                    => /\ state'.row_fingerprints[k] = state.row_fingerprints[k]
                       /\ state'.dataframe_records[k] = state.dataframe_records[k]
           /\ state.row_fingerprints[result'.row_index + 1]
                 \notin DOMAIN state'.validated_row_fingerprints]_vars

\* a fix has changed a row that was in the validity cache: the cache has
\* lost the key of that row
C26_Witness ==
    /\ FixSucceeded
    /\ state.dataframe_records # TwoRows
    /\ Len(state.dataframe_records) = Len(TwoRows)
    /\ Cardinality(DOMAIN state.validated_row_fingerprints)
          = Len(state.dataframe_records) - 1

\* the validity cache maps the current fingerprint of row i to valid
CachedValid(i) ==
    /\ i < Len(state.row_fingerprints)
    /\ state.row_fingerprints[i + 1] \in DOMAIN state.validated_row_fingerprints
    /\ state.validated_row_fingerprints[state.row_fingerprints[i + 1]] = TRUE

\* C27: a skip is never mistaken for clean data: in every state reached
\* through validate_data and the fix and skip operations, no row of the
\* skipped set has its current fingerprint mapped to valid in the validity
\* cache.
C27_SkipNeverValid ==
    \A i \in SkippedRows : ~CachedValid(i)

\* the session states st1 and st2 are equal but for the wait timestamp
SameButWait(st1, st2) ==
    [st1 EXCEPT !.waiting_since = <<>>] = [st2 EXCEPT !.waiting_since = <<>>]

\* the fixes argument that gave the applied dict of an apply_batch_fixes result
FixesOf(applied) ==
    [isdict |-> TRUE, items |-> [k \in DOMAIN applied |-> applied[k].new]]

\* the state the call that has just succeeded leaves when it is repeated
\* with the same arguments
Repeated ==
    CASE op = "apply_single_fix" ->
            apply_single_fix(state, I(result.row_index), result.field,
                             result.new_value, now + 1).state
      [] op = "apply_batch_fixes" ->
            apply_batch_fixes(state, I(result.row_index), FixesOf(result.applied),
                              now + 1).state
      [] op = "apply_skip_row" ->
            apply_skip_row(state, I(result.row_index), now + 1).state
      [] op = "apply_skip_all" -> apply_skip_all(state).state
      [] OTHER -> state

\* C28: idempotence: repeating apply_single_fix, apply_batch_fixes,
\* apply_skip_row or apply_skip_all with the same arguments right after its
\* first success leaves the state as the first call left it, the wait
\* timestamp aside.
C28_Idempotent ==
    (/\ op \in {"apply_single_fix", "apply_batch_fixes", "apply_skip_row",
                "apply_skip_all"}
     /\ result.status \in {"fixed", "skipped"})
        => SameButWait(Repeated, state)

C30_ReingestResets ==
    (op = "ingest_file" /\ result.status = "success")
        => /\ state.pending_fixes = <<>>
           /\ state.skipped_fixes = <<>>
           /\ state.waiting_since = <<>>
           /\ PassedRows = {}

\* C31: a submission that applies nothing: an accepted submission whose
\* applied and skipped counts are both 0 (the empty body, or items that are
\* all input errors or no-ops) leaves the session state and the run's resume
\* signal as they were, the status still WAITING_FOR_USER, and is answered
\* with a success response that reports the two counts.
C31_NothingApplied ==
    [][(/\ op' = "submit_answers"
        /\ Accepted(result')
        /\ result'.applied_count = 0
        /\ result'.skipped_count = 0)
       => (/\ state' = state
           /\ runs' = runs
           /\ state'.status = "WAITING_FOR_USER"
           /\ result'.code = 200)]_vars

\* the entries of the pending batch, the held-back set and the skipped set
AllEntries ==
    state.pending_fixes \o state.remaining_fixes \o state.skipped_fixes

\* C32: index range: in every reachable state, a second ingest_file of a
\* different file included, every entry of the pending batch, the held-back
\* set and the skipped set has 0 <= row_index < number of rows, so that
\* package_results finds the record of every error row.
C32_IndexRange ==
    /\ \A j \in 1..Len(AllEntries) : AllEntries[j].row_index \in RowIndices
    /\ package_results(state).result.status # "exception"

\* the lists that hold the items of a row in some insertion order
Orders(items) ==
    {[j \in 1..Len(items) |-> items[p[j]]] :
        p \in {q \in [1..Len(items) -> 1..Len(items)] :
                  \A a, b \in 1..Len(items) : q[a] = q[b] => a = b}}

\* None or NaN
NullLike(v) == v.t \in {"none", "nan"}

\* the float v to six decimals, as integer part and millionths
Round6(v) ==
    IF (v.f + 5) \div 10 = 1000000 THEN <<v.n + 1, 0>>
    ELSE <<v.n, (v.f + 5) \div 10>>

\* two values the fingerprint is meant to take for one: both null-like, or
\* floats that are equal to six decimals
SameByDesign(v, w) ==
    \/ v = w
    \/ NullLike(v) /\ NullLike(w)
    \/ v.t = "float" /\ w.t = "float" /\ Round6(v) = Round6(w)

\* C33: fingerprint determinism: the canonical form of a row is the same for
\* every insertion order of its keys and agrees with the fingerprint of the
\* row as a dict; a value replaced by one that is equal by design (None and
\* NaN, two floats equal to six decimals) leaves the canonical form as it
\* was; compute_all_fingerprints returns one fingerprint per record, in the
\* order of the records.
C33_FingerprintDeterminism ==
    /\ op = "canonicalize_row" =>
          /\ \A other \in Orders(result.items) :
                canonical_json(other) = result.canonical
          /\ \A j \in 1..Len(result.canonical) :
                result.canonical[j][2]
                = compute_row_fingerprint(DictOf(result.items))[result.canonical[j][1]]
    /\ (op = "replace_value" /\ SameByDesign(result.old_value, result.new_value)) =>
          result.canonical = result.old_canonical
    /\ op = "compute_all_fingerprints" =>
          /\ Len(result.fingerprints) = Len(state.dataframe_records)
          /\ \A i \in 1..Len(state.dataframe_records) :
                result.fingerprints[i]
                = compute_row_fingerprint(state.dataframe_records[i])

\* in a row whose keys were inserted out of sorted order, a float was
\* replaced by another one equal to six decimals and the canonical form,
\* written in sorted key order, stayed
C33_Witness ==
    /\ op = "replace_value"
    /\ result.items[1][1] = "vendor"
    /\ result.canonical[1][1] = "amount"
    /\ result.old_value # result.new_value
    /\ SameByDesign(result.old_value, result.new_value)
    /\ result.old_value.t = "float"
    /\ result.canonical = result.old_canonical

\* C34: fingerprint sensitivity: replacing the value of a field by a
\* different value (one that is not equal to it by design) gives a different
\* canonical form; a number and its string form, or None and the text
\* "null", do not share a token.
C34_FingerprintSensitivity ==
    (op = "replace_value" /\ ~SameByDesign(result.old_value, result.new_value)) =>
        result.canonical # result.old_canonical

\* C35: rows surfaced whole: in every reachable state no row index has
\* entries both in the pending batch and in the held-back set; a rotation
\* moves the entries of a row together.
C35_RowsWhole == PendingRows \cap HeldBackRows = {}

\* C36: remaining count: the remaining_fixes count a successful
\* apply_single_fix, apply_batch_fixes or apply_skip_row returns is the
\* number of entries of the pending batch plus the held-back set in the
\* state it leaves, also when the call rotated the next batch in.
C36_RemainingCount ==
    RowOpSucceeded =>
        result.remaining_fixes
        = Len(state.pending_fixes) + Len(state.remaining_fixes)

\* C37: ready means nothing outstanding: whenever a successful
\* apply_single_fix, apply_batch_fixes or apply_skip_row leaves the status
\* RUNNING, the pending batch and the held-back set are both empty; while
\* held-back entries existed before the call the pending batch is not left
\* empty, and after a rotation the status is WAITING_FOR_USER.
C37_ReadyNothingOutstanding ==
    [][RowOpSucceeded' =>
          /\ state'.status = "RUNNING" =>
                state'.pending_fixes = <<>> /\ state'.remaining_fixes = <<>>
          /\ state.remaining_fixes # <<>> => state'.pending_fixes # <<>>
          /\ (/\ state.remaining_fixes # <<>>
              /\ state'.remaining_fixes # state.remaining_fixes) =>
                state'.status = "WAITING_FOR_USER"]_vars

UserSkipped == SkippedRows \cap RowIndices

\* the rows outside the skipped set that violate no rule
CleanRowsNow ==
    {i \in RowIndices \ UserSkipped : RowPasses(state.dataframe_records, i, Today)}

\* C39: validation counts: in the result of a validate_data that ran the
\* rules, valid_count is the number of rows outside the skipped set with no
\* violation, error_count the number of rows outside the skipped set with at
\* least one, and valid_count + error_count + the number of skipped rows is
\* total_rows.
C39_ValidationCounts ==
    (op = "validate_data" /\ result.status \in {"waiting_for_fixes", "success"}) =>
        /\ result.valid_count = Cardinality(CleanRowsNow)
        /\ result.error_count
           = Cardinality((RowIndices \ UserSkipped) \ CleanRowsNow)
        /\ result.valid_count + result.error_count + Cardinality(UserSkipped)
           = result.total_rows

====
